---- MODULE Spec2Model ----
(***************************************************************************)
(* mut_family: the mutability-wrapper families (src/in_ex_mut/mod.rs) and  *)
(* the reference-kind families with the SomeRef union (src/refs.rs).       *)
(*                                                                         *)
(* The model is a client that owns at most one wrapper at a time and calls *)
(* the library on it.  What the Rust compiler decides (which calls the     *)
(* borrow checker accepts, which impls exist) is in the guards of the      *)
(* actions; what the code computes is in the operators the actions apply.  *)
(* A value of type Option<X> is the set {} or {x}; a null address is 0.    *)
(***************************************************************************)
EXTENDS Integers, FiniteSets

\* ------------------------------------------------------------------ bounds
MaxValue == 0
NumAddr == 2
MaxBorrow == 2
MaxOut == 1

\* The values the scenarios of the specification name, and a few more.
ScenarioValues == {5, 10, 20}
Value == ScenarioValues \cup (1..MaxValue)
Addr == 1..NumAddr
Out == 0..MaxOut

\* ------------------------------------------------ refs.rs: reference kinds
RefMutFamilies == {"SharedRefFamily", "MutRefFamily"}

\* const IS_SHARED of the implementor M
IS_SHARED_swapped(M) ==
    M = "MutRefFamily"
IS_SHARED(M) ==
    M = "SharedRefFamily"

\* type Ref<'a, T> of the implementor M: &'a T or &'a mut T
RefKind(M) ==
    IF M = "SharedRefFamily" THEN "shared" ELSE "mut"

\* a reference: its kind and the address it holds
MkRef(kind, addr) ==
    [kind |-> kind, addr |-> addr]
NoRef ==
    MkRef("none", 0)

\* size of a thin reference, in bits (the library's T is Sized)
PtrBits == 64

Max2(a, b) ==
    IF a >= b THEN a ELSE b

\* size_of::<M::Ref<'a, T>>()
SizeOfRef(M) ==
    PtrBits

\* size_of::<SomeRef<'a, T, M>>(): a union is as large as its largest field;
\* PhantomData<*const M> has size 0
SizeOfSomeRef(M) ==
    Max2(Max2(PtrBits, PtrBits), 0)

\* the arm of the union that holds references of a kind
ArmOf(kind) ==
    IF kind = "shared" THEN "shared" ELSE "mut_"
KindOfArm(arm) ==
    IF arm = "shared" THEN "shared" ELSE "mut"

\* a SomeRef<'a, T, M>: the static M, the arm last written, the stored bits
NoSomeRef ==
    [M |-> "none", arm |-> "none", bits |-> 0]

\* reading one arm of the union: both arms overlay the same bits; `punned`
\* says that the arm read is not the arm that was written
ReadArm(sr, arm) ==
    [ref |-> MkRef(KindOfArm(arm), sr.bits), punned |-> sr.arm # arm]

\* SomeRef::from_shared
from_shared(shared) ==
    [M |-> "SharedRefFamily", arm |-> "shared", bits |-> shared.addr]

\* SomeRef::into_shared
into_shared(sr) ==
    ReadArm(sr, "shared")

\* SomeRef::from_mut
from_mut(mut_) ==
    [M |-> "MutRefFamily", arm |-> "mut_", bits |-> mut_.addr]

\* SomeRef::into_mut
into_mut(sr) ==
    ReadArm(sr, "mut_")

\* <&'a T as Ref>::into_someref and <&'a mut T as Ref>::into_someref
into_someref(r) ==
    IF r.kind = "shared"
    THEN [M |-> "SharedRefFamily", arm |-> "shared", bits |-> r.addr]
    ELSE [M |-> "MutRefFamily", arm |-> "mut_", bits |-> r.addr]

\* <SomeRef as Ref>::as_ref
SomeRef_as_ref(sr) ==
    IF IS_SHARED(sr.M) THEN ReadArm(sr, "shared") ELSE ReadArm(sr, "mut_")

\* SomeRef::into_inner_ref: debug_assert! on the sizes (compiled in only with
\* debug assertions), then transmute_copy of the bits to M::Ref<'a, T>
into_inner_ref_always_asserting(sr, debug_assertions) ==
    LET same == SizeOfSomeRef(sr.M) = SizeOfRef(sr.M)
    IN  [checked |-> TRUE,
         out |-> IF same THEN "ok" ELSE "panic",
         ref |-> IF same THEN MkRef(RefKind(sr.M), sr.bits) ELSE NoRef]
into_inner_ref(sr, debug_assertions) ==
    LET same == SizeOfSomeRef(sr.M) = SizeOfRef(sr.M)
    IN  IF debug_assertions
        THEN [checked |-> TRUE,
              out |-> IF same THEN "ok" ELSE "panic",
              ref |-> IF same THEN MkRef(RefKind(sr.M), sr.bits) ELSE NoRef]
        ELSE [checked |-> FALSE,
              out |-> IF same THEN "ok" ELSE "ub",
              ref |-> IF same THEN MkRef(RefKind(sr.M), sr.bits) ELSE NoRef]

\* SomeRef::convert: the branch on M::IS_SHARED; f_ref and f_mut are functions
\* from the address of the reference they receive to their result
convert_both_called(sr, f_ref, f_mut) ==
    LET r == ReadArm(sr, "shared")
    IN  [val |-> {f_ref[r.ref.addr]}, callsRef |-> 1, callsMut |-> 1,
         arg |-> r.ref, punned |-> r.punned]
convert(sr, f_ref, f_mut) ==
    IF IS_SHARED(sr.M)
    THEN LET r == ReadArm(sr, "shared")
         IN  [val |-> {f_ref[r.ref.addr]}, callsRef |-> 1, callsMut |-> 0,
              arg |-> r.ref, punned |-> r.punned]
    ELSE LET r == ReadArm(sr, "mut_")
         IN  [val |-> {f_mut[r.ref.addr]}, callsRef |-> 0, callsMut |-> 1,
              arg |-> r.ref, punned |-> r.punned]

\* the transmute of a SomeRef<'a, U, SharedRefFamily> or SomeRef<'a, U,
\* MutRefFamily> to the SomeRef<'a, U, M> that map returns: the bits and the
\* arm they were written through stay, the static family becomes M
TransmuteSomeRef(sr, M) ==
    [sr EXCEPT !.M = M]

\* SomeRef::map: convert with two closures, each calling one of f_ref, f_mut
\* (functions from the address of the reference they receive to the address
\* of the reference they return) and wrapping what it returned
map_closures_crossed(sr, f_ref, f_mut) ==
    LET on_ref == [a \in Addr |->
                      TransmuteSomeRef(from_mut(MkRef("mut", f_mut[a])), sr.M)]
        on_mut == [a \in Addr |->
                      TransmuteSomeRef(from_shared(MkRef("shared", f_ref[a])), sr.M)]
        c == convert(sr, on_ref, on_mut)
    IN  [sr |-> CHOOSE x \in c.val : TRUE,
         callsRef |-> c.callsMut, callsMut |-> c.callsRef,
         arg |-> c.arg, punned |-> c.punned]
map(sr, f_ref, f_mut) ==
    LET on_ref == [a \in Addr |->
                      TransmuteSomeRef(from_shared(MkRef("shared", f_ref[a])), sr.M)]
        on_mut == [a \in Addr |->
                      TransmuteSomeRef(from_mut(MkRef("mut", f_mut[a])), sr.M)]
        c == convert(sr, on_ref, on_mut)
    IN  [sr |-> CHOOSE x \in c.val : TRUE,
         callsRef |-> c.callsRef, callsMut |-> c.callsMut,
         arg |-> c.arg, punned |-> c.punned]

\* ------------------------------------------- in_ex_mut/mod.rs: the families
MutFamilies == {"IdentityFamily", "UnsafeCellFamily", "CellFamily", "RefCellFamily"}

\* a Target<T> in memory: the wrapped value and, for RefCell, the borrow flag
\* (0 unused, n > 0 that many shared borrows, -1 mutably borrowed); a free
\* slot holds no value
MkTarget(value, borrow) ==
    [value |-> value, borrow |-> borrow]
Free ==
    MkTarget({}, 0)

\* MutFamily::RefMutFamilyAllowingMutationUnsafely of each implementor
RefMutFamilyAllowingMutationUnsafely(F) ==
    CASE F = "IdentityFamily" -> "MutRefFamily"
      [] F = "UnsafeCellFamily" -> "SharedRefFamily"
      [] F = "CellFamily" -> "SharedRefFamily"
      [] F = "RefCellFamily" -> "SharedRefFamily"

\* the implementors of Set, and Set::RefMutFamilyAllowingMutation of each
ImplementsSet(F) ==
    F \in {"IdentityFamily", "CellFamily", "RefCellFamily"}
RefMutFamilyAllowingMutation_all_shared(F) ==
    "SharedRefFamily"
RefMutFamilyAllowingMutation(F) ==
    CASE F = "IdentityFamily" -> "MutRefFamily"
      [] F = "CellFamily" -> "SharedRefFamily"
      [] F = "RefCellFamily" -> "SharedRefFamily"

\* the implementors of CopyInner and of CloneInner
ImplementsCopyInner(F) ==
    F \in {"IdentityFamily", "CellFamily", "RefCellFamily"}
ImplementsCloneInner(F) ==
    F \in {"IdentityFamily", "RefCellFamily"}

\* MutFamily::new
new_default(F, value) ==
    MkTarget({0}, 0)
new(F, value) ==
    CASE F = "IdentityFamily" -> MkTarget({value}, 0)
      [] F = "UnsafeCellFamily" -> MkTarget({value}, 0)
      [] F = "CellFamily" -> MkTarget({value}, 0)
      [] F = "RefCellFamily" -> MkTarget({value}, 0)

\* MutFamily::into_inner
into_inner(F, target) ==
    CASE F = "IdentityFamily" -> target.value
      [] F = "UnsafeCellFamily" -> target.value
      [] F = "CellFamily" -> target.value
      [] F = "RefCellFamily" -> target.value

\* MutFamily::get_mut: the exclusive reference to the wrapped value, and the
\* memory it leaves; RefCell::get_mut does not touch the borrow flag
get_mut_registering_borrow(F, mut_ref, mem) ==
    [ref |-> MkRef("mut", mut_ref.addr),
     mem |-> [mem EXCEPT ![mut_ref.addr].borrow = -1]]
get_mut(F, mut_ref, mem) ==
    [ref |-> MkRef("mut", mut_ref.addr), mem |-> mem]

\* MutFamily::as_ptr: the address of the wrapped value
as_ptr_of_copy(F, ref_) ==
    (ref_.addr % NumAddr) + 1
as_ptr(F, ref_) ==
    ref_.addr

\* RefCell::borrow and RefCell::borrow_mut as the library calls them: whether
\* the borrow is granted in this state of the flag
borrow_granted(target) ==
    target.borrow >= 0
borrow_mut_granted(target) ==
    target.borrow = 0

\* the borrow flag as the guards the library creates move it: borrow() counts
\* one more shared borrow and the drop of its Ref one less; borrow_mut() marks
\* the exclusive borrow and the drop of its RefMut clears it
borrow_taken(target) ==
    [target EXCEPT !.borrow = @ + 1]
borrow_dropped(target) ==
    [target EXCEPT !.borrow = @ - 1]
borrow_mut_taken(target) ==
    [target EXCEPT !.borrow = @ - 1]
borrow_mut_dropped(target) ==
    [target EXCEPT !.borrow = @ + 1]

\* the target as copy_inner and clone_inner leave it: the temporary Ref of
\* `*ref_.borrow()` and of `ref_.borrow().clone()` is dropped before the
\* function returns; a refused borrow changes nothing
read_leaves_guard_leaked(F, target) ==
    IF F = "RefCellFamily" /\ borrow_granted(target)
    THEN borrow_taken(target)
    ELSE target
read_leaves(F, target) ==
    IF F = "RefCellFamily" /\ borrow_granted(target)
    THEN borrow_dropped(borrow_taken(target))
    ELSE target

\* CopyInner::copy_inner
RefCellFamily_copy_inner_unchecked(target) ==
    [out |-> "ok", val |-> target.value]
RefCellFamily_copy_inner(target) ==
    IF borrow_granted(target)
    THEN [out |-> "ok", val |-> target.value]
    ELSE [out |-> "panic", val |-> {}]
copy_inner(F, target) ==
    CASE F = "IdentityFamily" -> [out |-> "ok", val |-> target.value]
      [] F = "CellFamily" -> [out |-> "ok", val |-> target.value]
      [] F = "RefCellFamily" -> RefCellFamily_copy_inner(target)

\* CloneInner::clone_inner
clone_inner(F, target) ==
    CASE F = "IdentityFamily" -> [out |-> "ok", val |-> target.value]
      [] F = "RefCellFamily" ->
            IF borrow_granted(target)
            THEN [out |-> "ok", val |-> target.value]
            ELSE [out |-> "panic", val |-> {}]

\* the assignment through a reference to the wrapper at addr
Store(mem, addr, value) ==
    [mem EXCEPT ![addr].value = {value}]

\* `*ref_.borrow_mut() = value`, the borrow granted: the assignment through
\* the temporary RefMut, which is dropped at the end of the statement
StoreBorrowed(mem, addr, value) ==
    LET taken == [mem EXCEPT ![addr] = borrow_mut_taken(@)]
        stored == Store(taken, addr, value)
    IN  [stored EXCEPT ![addr] = borrow_mut_dropped(@)]

\* Set::set
set_dropping_value(F, ref_, mem, value) ==
    [out |-> "ok", mem |-> mem]
set(F, ref_, mem, value) ==
    CASE F = "IdentityFamily" -> [out |-> "ok", mem |-> Store(mem, ref_.addr, value)]
      [] F = "CellFamily" -> [out |-> "ok", mem |-> Store(mem, ref_.addr, value)]
      [] F = "RefCellFamily" ->
            IF borrow_mut_granted(mem[ref_.addr])
            THEN [out |-> "ok", mem |-> StoreBorrowed(mem, ref_.addr, value)]
            ELSE [out |-> "panic", mem |-> mem]

\* Set::set_via_someref
set_via_someref_unchecked(F, someref, mem, value) ==
    [out |-> "ok", mem |-> Store(mem, someref.bits, value), punned |-> FALSE]
set_via_someref(F, someref, mem, value) ==
    CASE F = "IdentityFamily" ->
            LET mut_ref == into_mut(someref)
            IN  [out |-> "ok", mem |-> Store(mem, mut_ref.ref.addr, value),
                 punned |-> mut_ref.punned]
      [] F = "CellFamily" ->
            LET ref_ == into_shared(someref)
            IN  [out |-> "ok", mem |-> Store(mem, ref_.ref.addr, value),
                 punned |-> ref_.punned]
      [] F = "RefCellFamily" ->
            LET ref_ == into_shared(someref)
            IN  IF borrow_mut_granted(mem[ref_.ref.addr])
                THEN [out |-> "ok", mem |-> StoreBorrowed(mem, ref_.ref.addr, value),
                      punned |-> ref_.punned]
                ELSE [out |-> "panic", mem |-> mem, punned |-> ref_.punned]

\* ---------------------------------------------------------------- the state
VARIABLES
    fam,               \* the family of the live wrapper, "none" without one
    loc,               \* the address of the live wrapper, 0 without one
    mem,               \* the memory: a Target<T> or Free at each address
    view,              \* the live &mut T that get_mut returned (its address), or 0
    ptr,               \* the usable *mut T that as_ptr returned, or 0
    someref,           \* the live SomeRef, or NoSomeRef
    origin,            \* the reference the last SomeRef was built from
    lastWrite,         \* how the wrapped value was last written, and with what
    last,              \* the last call: its name, its arguments and what it returned
    debug_assertions   \* cfg!(debug_assertions) of the build

vars ==
    <<fam, loc, mem, view, ptr, someref, origin, lastWrite, last,
      debug_assertions>>

\* the closures a client passes to convert: closure k maps the address of the
\* reference it receives to (address + k) modulo the number of results
Closures == {[a \in Addr |-> (a + k) % (MaxOut + 1)] : k \in Out}
ZeroFn == [a \in Addr |-> 0]
\* the closures a client passes to map: closure k maps the address of the
\* reference it receives to the address k places further (k = 0: the same
\* pointee; otherwise another object that lives as long)
MapClosures == {[a \in Addr |-> ((a - 1 + k) % NumAddr) + 1] : k \in 0..(NumAddr - 1)}

NoCall ==
    [op |-> "none", F |-> "none", out |-> "ok", val |-> {}, arg |-> {}, ref |-> NoRef,
     access |-> "none", callsRef |-> 0, callsMut |-> 0, punned |-> FALSE,
     checked |-> FALSE, f_ref |-> ZeroFn, f_mut |-> ZeroFn]
Call(op) ==
    [NoCall EXCEPT !.op = op, !.F = fam]

Written(kind, value) ==
    [kind |-> kind, val |-> value]

Init ==
    /\ fam = "none"
    /\ loc = 0
    /\ mem = [a \in Addr |-> Free]
    /\ view = 0
    /\ ptr = 0
    /\ someref = NoSomeRef
    /\ origin = NoRef
    /\ lastWrite = Written("none", {})
    /\ last = NoCall
    /\ debug_assertions \in BOOLEAN

\* ---- what the compiler accepts
\* a panic unwinds the client: nothing runs after it
Running ==
    last.out = "ok"
Live ==
    fam # "none"
\* an exclusive borrow of the wrapper is alive
ExclBorrowed ==
    view # 0 \/ someref.M = "MutRefFamily"
\* a shared borrow of the wrapper is alive (a SomeRef, or a RefCell guard)
SharedBorrowed ==
    someref.M = "SharedRefFamily" \/ (loc # 0 /\ mem[loc].borrow # 0)
CanShare ==
    Running /\ Live /\ ~ExclBorrowed
CanExcl ==
    CanShare /\ ~SharedBorrowed
CanRef(kind) ==
    IF kind = "shared" THEN CanShare ELSE CanExcl
\* the raw pointer after the wrapper is used through a reference of a kind: it
\* stays usable only if it came from a shared reference and the use is shared
PtrAfter(kind) ==
    IF kind = "shared" /\ RefKind(RefMutFamilyAllowingMutationUnsafely(fam)) = "shared"
    THEN ptr ELSE 0

\* -------------------------------------------------------------- the actions
\* let w = F::new(value), placed at address a
New(F, value, a) ==
    /\ Running /\ ~Live
    /\ fam' = F
    /\ loc' = a
    /\ mem' = [mem EXCEPT ![a] = new(F, value)]
    /\ lastWrite' = Written("new", {value})
    /\ last' = [Call("new") EXCEPT !.arg = {value}, !.F = F]
    /\ UNCHANGED <<view, ptr, someref, origin, debug_assertions>>

\* F::into_inner(w): the wrapper is moved out of its place
IntoInner ==
    /\ CanExcl
    /\ last' = [Call("into_inner") EXCEPT !.val = into_inner(fam, mem[loc]),
                                          !.access = "owned"]
    /\ mem' = [mem EXCEPT ![loc] = Free]
    /\ fam' = "none"
    /\ loc' = 0
    /\ ptr' = 0
    /\ UNCHANGED <<view, someref, origin, lastWrite, debug_assertions>>

\* let v = F::get_mut(&mut w)
GetMut ==
    /\ CanExcl
    /\ LET r == get_mut(fam, MkRef("mut", loc), mem)
       IN  /\ view' = r.ref.addr
           /\ mem' = r.mem
           /\ last' = [Call("get_mut") EXCEPT !.ref = r.ref, !.access = "mut"]
    /\ ptr' = 0
    /\ UNCHANGED <<fam, loc, someref, origin, lastWrite, debug_assertions>>

\* a read through the exclusive view: *v
ViewRead ==
    /\ Running /\ view # 0
    /\ last' = [Call("view_read") EXCEPT !.val = mem[view].value]
    /\ UNCHANGED <<fam, loc, mem, view, ptr, someref, origin, lastWrite,
                   debug_assertions>>

\* a write through the exclusive view: *v = value
ViewWrite(value) ==
    /\ Running /\ view # 0
    /\ mem' = Store(mem, view, value)
    /\ lastWrite' = Written("view", {value})
    /\ last' = [Call("view_write") EXCEPT !.arg = {value}]
    /\ UNCHANGED <<fam, loc, view, ptr, someref, origin, debug_assertions>>

\* the exclusive view goes out of scope
ViewRelease ==
    /\ Running /\ view # 0
    /\ view' = 0
    /\ last' = Call("view_release")
    /\ UNCHANGED <<fam, loc, mem, ptr, someref, origin, lastWrite,
                   debug_assertions>>

\* let p = F::as_ptr(r), r of the kind the family asks for
AsPtr ==
    LET kind == RefKind(RefMutFamilyAllowingMutationUnsafely(fam))
    IN  /\ Live /\ CanRef(kind)
        /\ ptr' = as_ptr(fam, MkRef(kind, loc))
        /\ last' = [Call("as_ptr") EXCEPT !.access = kind]
        /\ UNCHANGED <<fam, loc, mem, view, someref, origin, lastWrite,
                       debug_assertions>>

\* unsafe { *p }
PtrRead ==
    /\ Running /\ ptr # 0
    /\ last' = [Call("ptr_read") EXCEPT !.val = mem[ptr].value]
    /\ UNCHANGED <<fam, loc, mem, view, ptr, someref, origin, lastWrite,
                   debug_assertions>>

\* unsafe { *p = value }, while no borrow of the value is registered
PtrWrite(value) ==
    /\ Running /\ ptr # 0
    /\ mem[ptr].borrow = 0
    /\ mem' = Store(mem, ptr, value)
    /\ lastWrite' = Written("ptr", {value})
    /\ last' = [Call("ptr_write") EXCEPT !.arg = {value}]
    /\ UNCHANGED <<fam, loc, view, ptr, someref, origin, debug_assertions>>

\* F::copy_inner(&w)
CopyInner ==
    /\ Live /\ ImplementsCopyInner(fam) /\ CanShare
    /\ LET r == copy_inner(fam, mem[loc])
       IN  last' = [Call("copy_inner") EXCEPT !.out = r.out, !.val = r.val,
                                              !.access = "shared"]
    /\ mem' = [mem EXCEPT ![loc] = read_leaves(fam, @)]
    /\ ptr' = PtrAfter("shared")
    /\ UNCHANGED <<fam, loc, view, someref, origin, lastWrite,
                   debug_assertions>>

\* F::clone_inner(&w)
CloneInner ==
    /\ Live /\ ImplementsCloneInner(fam) /\ CanShare
    /\ LET r == clone_inner(fam, mem[loc])
       IN  last' = [Call("clone_inner") EXCEPT !.out = r.out, !.val = r.val,
                                               !.access = "shared"]
    /\ mem' = [mem EXCEPT ![loc] = read_leaves(fam, @)]
    /\ ptr' = PtrAfter("shared")
    /\ UNCHANGED <<fam, loc, view, someref, origin, lastWrite,
                   debug_assertions>>

\* F::set(r, value), r of the kind the family asks for
Set(value) ==
    LET kind == RefKind(RefMutFamilyAllowingMutation(fam))
        r == set(fam, MkRef(kind, loc), mem, value)
    IN  /\ Live /\ ImplementsSet(fam) /\ CanRef(kind)
        /\ mem' = r.mem
        /\ lastWrite' = IF r.out = "ok" THEN Written("set", {value}) ELSE lastWrite
        /\ last' = [Call("set") EXCEPT !.out = r.out, !.arg = {value},
                                       !.access = kind]
        /\ ptr' = PtrAfter(kind)
        /\ UNCHANGED <<fam, loc, view, someref, origin, debug_assertions>>

\* F::set_via_someref(someref, value): the SomeRef is consumed
SetViaSomeref(value) ==
    /\ Running /\ Live /\ ImplementsSet(fam)
    /\ someref.M = RefMutFamilyAllowingMutation(fam)
    /\ someref.bits = loc
    /\ LET r == set_via_someref(fam, someref, mem, value)
       IN  /\ mem' = r.mem
           /\ lastWrite' = IF r.out = "ok" THEN Written("set", {value})
                           ELSE lastWrite
           /\ last' = [Call("set_via_someref") EXCEPT
                          !.out = r.out, !.arg = {value}, !.punned = r.punned,
                          !.access = RefKind(someref.M)]
    /\ someref' = NoSomeRef
    /\ UNCHANGED <<fam, loc, view, ptr, origin, debug_assertions>>

\* SomeRef::from_shared(&w)
FromShared ==
    /\ CanShare /\ someref = NoSomeRef
    /\ someref' = from_shared(MkRef("shared", loc))
    /\ origin' = MkRef("shared", loc)
    /\ ptr' = PtrAfter("shared")
    /\ last' = [Call("from_shared") EXCEPT !.access = "shared"]
    /\ UNCHANGED <<fam, loc, mem, view, lastWrite, debug_assertions>>

\* SomeRef::from_mut(&mut w)
FromMut ==
    /\ CanExcl /\ someref = NoSomeRef
    /\ someref' = from_mut(MkRef("mut", loc))
    /\ origin' = MkRef("mut", loc)
    /\ ptr' = PtrAfter("mut")
    /\ last' = [Call("from_mut") EXCEPT !.access = "mut"]
    /\ UNCHANGED <<fam, loc, mem, view, lastWrite, debug_assertions>>

\* r.into_someref(), r = &w or &mut w
RefIntoSomeref(kind) ==
    /\ Live /\ CanRef(kind) /\ someref = NoSomeRef
    /\ someref' = into_someref(MkRef(kind, loc))
    /\ origin' = MkRef(kind, loc)
    /\ ptr' = PtrAfter(kind)
    /\ last' = [Call("into_someref") EXCEPT !.access = kind]
    /\ UNCHANGED <<fam, loc, mem, view, lastWrite, debug_assertions>>

\* someref.into_inner_ref(); the reference it returns is dropped at once
IntoInnerRef ==
    /\ Running /\ someref # NoSomeRef
    /\ LET r == into_inner_ref(someref, debug_assertions)
       IN  last' = [Call("into_inner_ref") EXCEPT !.out = r.out, !.ref = r.ref,
                                                  !.checked = r.checked]
    /\ someref' = NoSomeRef
    /\ UNCHANGED <<fam, loc, mem, view, ptr, origin, lastWrite,
                   debug_assertions>>

\* someref.into_shared(), on a SomeRef<_, SharedRefFamily>
IntoShared ==
    /\ Running /\ someref.M = "SharedRefFamily"
    /\ LET r == into_shared(someref)
       IN  last' = [Call("into_shared") EXCEPT !.ref = r.ref, !.punned = r.punned]
    /\ someref' = NoSomeRef
    /\ UNCHANGED <<fam, loc, mem, view, ptr, origin, lastWrite,
                   debug_assertions>>

\* someref.into_mut(), on a SomeRef<_, MutRefFamily>
IntoMut ==
    /\ Running /\ someref.M = "MutRefFamily"
    /\ LET r == into_mut(someref)
       IN  last' = [Call("into_mut") EXCEPT !.ref = r.ref, !.punned = r.punned]
    /\ someref' = NoSomeRef
    /\ UNCHANGED <<fam, loc, mem, view, ptr, origin, lastWrite,
                   debug_assertions>>

\* someref.as_ref(): the SomeRef stays alive
AsRef ==
    /\ Running /\ someref # NoSomeRef
    /\ LET r == SomeRef_as_ref(someref)
       IN  last' = [Call("as_ref") EXCEPT !.ref = MkRef("shared", r.ref.addr),
                                          !.punned = r.punned]
    /\ UNCHANGED <<fam, loc, mem, view, ptr, someref, origin, lastWrite,
                   debug_assertions>>

\* someref.convert(f_ref, f_mut)
Convert(f_ref, f_mut) ==
    /\ Running /\ someref # NoSomeRef
    /\ LET r == convert(someref, f_ref, f_mut)
       IN  last' = [Call("convert") EXCEPT
                       !.val = r.val, !.callsRef = r.callsRef,
                       !.callsMut = r.callsMut, !.ref = r.arg,
                       !.punned = r.punned, !.f_ref = f_ref, !.f_mut = f_mut]
    /\ someref' = NoSomeRef
    /\ UNCHANGED <<fam, loc, mem, view, ptr, origin, lastWrite,
                   debug_assertions>>

\* someref = someref.map(f_ref, f_mut): the SomeRef is consumed, the one map
\* returns is built from the reference the closure returned
Map(f_ref, f_mut) ==
    /\ Running /\ someref # NoSomeRef
    /\ LET r == map(someref, f_ref, f_mut)
       IN  /\ someref' = r.sr
           /\ origin' = MkRef(KindOfArm(r.sr.arm), r.sr.bits)
           /\ last' = [Call("map") EXCEPT
                          !.callsRef = r.callsRef, !.callsMut = r.callsMut,
                          !.ref = r.arg, !.punned = r.punned,
                          !.access = RefKind(someref.M),
                          !.f_ref = f_ref, !.f_mut = f_mut]
    /\ UNCHANGED <<fam, loc, mem, view, ptr, lastWrite, debug_assertions>>

\* the SomeRef goes out of scope unused
DropSomeref ==
    /\ Running /\ someref # NoSomeRef
    /\ someref' = NoSomeRef
    /\ last' = Call("drop_someref")
    /\ UNCHANGED <<fam, loc, mem, view, ptr, origin, lastWrite,
                   debug_assertions>>

\* ---- the client's own borrows of a RefCell target (Target<T> = RefCell<T>)
\* let g = w.borrow()
Borrow ==
    /\ fam = "RefCellFamily" /\ CanShare
    /\ mem[loc].borrow < MaxBorrow
    /\ IF borrow_granted(mem[loc])
       THEN /\ mem' = [mem EXCEPT ![loc].borrow = @ + 1]
            /\ last' = Call("borrow")
       ELSE /\ mem' = mem
            /\ last' = [Call("borrow") EXCEPT !.out = "panic"]
    /\ ptr' = PtrAfter("shared")
    /\ UNCHANGED <<fam, loc, view, someref, origin, lastWrite,
                   debug_assertions>>

\* let g = w.borrow_mut()
BorrowMut ==
    /\ fam = "RefCellFamily" /\ CanShare
    /\ IF borrow_mut_granted(mem[loc])
       THEN /\ mem' = [mem EXCEPT ![loc].borrow = -1]
            /\ last' = Call("borrow_mut")
       ELSE /\ mem' = mem
            /\ last' = [Call("borrow_mut") EXCEPT !.out = "panic"]
    /\ ptr' = PtrAfter("shared")
    /\ UNCHANGED <<fam, loc, view, someref, origin, lastWrite,
                   debug_assertions>>

\* drop(g)
DropGuard ==
    /\ fam = "RefCellFamily" /\ Running
    /\ mem[loc].borrow # 0
    /\ mem' = [mem EXCEPT ![loc].borrow = IF @ > 0 THEN @ - 1 ELSE 0]
    /\ last' = Call("drop_guard")
    /\ UNCHANGED <<fam, loc, view, ptr, someref, origin, lastWrite,
                   debug_assertions>>

\* the calls of the library, and the uses of the references it returned
LibraryNext ==
    \/ \E F \in MutFamilies, value \in Value, a \in Addr : New(F, value, a)
    \/ IntoInner
    \/ GetMut
    \/ ViewRead
    \/ \E value \in Value : ViewWrite(value)
    \/ ViewRelease
    \/ AsPtr
    \/ PtrRead
    \/ \E value \in Value : PtrWrite(value)
    \/ CopyInner
    \/ CloneInner
    \/ \E value \in Value : Set(value)
    \/ \E value \in Value : SetViaSomeref(value)
    \/ FromShared
    \/ FromMut
    \/ \E kind \in {"shared", "mut"} : RefIntoSomeref(kind)
    \/ IntoInnerRef
    \/ IntoShared
    \/ IntoMut
    \/ AsRef
    \/ \E f_ref \in Closures, f_mut \in Closures : Convert(f_ref, f_mut)
    \/ \E f_ref \in MapClosures, f_mut \in MapClosures : Map(f_ref, f_mut)
    \/ DropSomeref

\* the client's calls of RefCell's own borrow API
ClientBorrows ==
    \/ Borrow
    \/ BorrowMut
    \/ DropGuard

Next ==
    \/ LibraryNext
    \/ ClientBorrows

Spec ==
    Init /\ [][Next]_vars

\* a client that reaches the wrapper through the library alone
LibrarySpec ==
    Init /\ [][LibraryNext]_vars

\* --------------------------------------------------------------- the claims
Reads == {"copy_inner", "clone_inner", "view_read"}

\* C1: for each of the four families and every value v, into_inner(new(v))
\* returns exactly v: when a wrapper that has not been written since new(v)
\* is unwrapped, into_inner returns the v it was constructed with.
C1_RoundTrip ==
    (last.op = "into_inner" /\ lastWrite.kind = "new")
        => (last.F \in MutFamilies /\ last.val = lastWrite.val)

C1_Witness ==
    /\ last.op = "into_inner"
    /\ last.F = "RefCellFamily"
    /\ lastWrite = Written("new", {5})
    /\ last.val = {5}

\* C2: for Identity, Cell and RefCell, once set (or set_via_someref) has stored
\* v2 and nothing else has written the wrapper since, every read that returns
\* (copy_inner, clone_inner, a read through get_mut's view) yields v2,
\* whatever sets and reads came before.
C2_SetVisible ==
    (last.op \in Reads /\ last.out = "ok" /\ lastWrite.kind = "set")
        => (/\ last.F \in {"IdentityFamily", "CellFamily", "RefCellFamily"}
            /\ last.val = lastWrite.val)

C2_Witness ==
    /\ last.op = "copy_inner"
    /\ last.F = "CellFamily"
    /\ lastWrite = Written("set", {10})
    /\ last.val = {10}

\* C3 as stated: for a RefCell wrapper holding 5, while the exclusive view
\* that get_mut returned is alive, copy_inner reports the conflicting-access
\* failure instead of a value.
C3_Original ==
    (fam = "RefCellFamily" /\ view # 0 /\ mem[loc].value = {5})
        => copy_inner(fam, mem[loc]).out = "panic"

\* C3 as amended: get_mut registers no run-time borrow, so while its view is
\* alive the borrow flag is unused and copy_inner's body would return the
\* value, not the failure (the call itself is never made there: the compiler
\* rejects it); a copy_inner that runs reports the failure exactly when a
\* run-time exclusive borrow (a borrow_mut guard) is alive, and otherwise
\* returns the wrapped value; right after the view is released copy_inner
\* succeeds with the wrapped value (5 for a wrapper holding 5).
C3_Amended ==
    /\ (fam = "RefCellFamily" /\ view # 0)
          => /\ mem[loc].borrow = 0
             /\ copy_inner(fam, mem[loc]) = [out |-> "ok", val |-> mem[loc].value]
    /\ (last.op = "copy_inner" /\ last.F = "RefCellFamily")
          => /\ view = 0
             /\ (last.out = "panic") <=> (mem[loc].borrow = -1)
             /\ (last.out = "ok") => (last.val = mem[loc].value)
    /\ (last.op = "view_release" /\ fam = "RefCellFamily")
          => copy_inner(fam, mem[loc]) = [out |-> "ok", val |-> mem[loc].value]

C3_Witness ==
    /\ last.op = "view_release"
    /\ fam = "RefCellFamily"
    /\ lastWrite = Written("new", {5})
    /\ copy_inner(fam, mem[loc]) = [out |-> "ok", val |-> {5}]

\* C4: convert on a SomeRef built from a shared reference calls f_ref exactly
\* once, with that reference, never f_mut, and returns f_ref's result; on a
\* SomeRef built from an exclusive reference it calls f_mut exactly once, with
\* that reference, never f_ref, and returns f_mut's result.
C4_ConvertDispatch ==
    (last.op = "convert")
        => /\ last.ref = origin
           /\ IF origin.kind = "shared"
              THEN /\ last.callsRef = 1 /\ last.callsMut = 0
                   /\ last.val = {last.f_ref[origin.addr]}
              ELSE /\ last.callsRef = 0 /\ last.callsMut = 1
                   /\ last.val = {last.f_mut[origin.addr]}

C4_Witness ==
    /\ last.op = "convert"
    /\ origin.kind = "shared"
    /\ last.callsRef = 1 /\ last.callsMut = 0
    /\ last.f_ref[origin.addr] # last.f_mut[origin.addr]
    /\ last.val = {last.f_ref[origin.addr]}

C6_RawWrite ==
    /\ (last.op = "ptr_write" /\ last.F = "UnsafeCellFamily")
          => (mem[loc].value = last.arg)
    /\ (last.op = "into_inner" /\ last.F = "UnsafeCellFamily"
            /\ lastWrite.kind = "ptr")
          => (last.val = lastWrite.val)

C6_Witness ==
    /\ last.op = "into_inner"
    /\ last.F = "UnsafeCellFamily"
    /\ lastWrite = Written("ptr", {20})
    /\ last.val = {20}

\* C7: for each of the four families, the pointer as_ptr returns on a wrapper
\* not written since new(v) reads v when dereferenced, and as_ptr leaves the
\* wrapped value as it was.
C7_AsPtrReadsNew ==
    /\ (last.op = "ptr_read" /\ lastWrite.kind = "new")
          => (last.F \in MutFamilies /\ last.val = lastWrite.val)
    /\ (last.op = "as_ptr")
          => (ptr # 0 /\ mem[loc].value = lastWrite.val /\ mem[ptr].value = lastWrite.val)

C7_Witness ==
    /\ last.op = "ptr_read"
    /\ last.F = "IdentityFamily"
    /\ lastWrite = Written("new", {5})
    /\ last.val = {5}

\* the access kind the policy table of the specification gives for set
PolicyTableSet(F) ==
    CASE F = "IdentityFamily" -> "mut"
      [] F = "UnsafeCellFamily" -> "mut"
      [] F = "CellFamily" -> "shared"
      [] F = "RefCellFamily" -> "shared"

\* C8 as stated: each of the four families exposes set: whenever the client
\* owns a wrapper that nothing borrows, set can be called on it.
C8_Original ==
    CanExcl => \A value \in Value : ENABLED Set(value)

\* C8 as amended: Identity, Cell and RefCell expose set and set_via_someref,
\* which take a reference of the kind of the policy table (exclusive for
\* Identity, shared for Cell and RefCell) and, when they return, have
\* overwritten the wrapped value; UnsafeCell exposes neither.
C8_Amended ==
    /\ (last.op \in {"set", "set_via_someref"})
          => /\ last.F \in {"IdentityFamily", "CellFamily", "RefCellFamily"}
             /\ last.access = PolicyTableSet(last.F)
             /\ (last.out = "ok") => (mem[loc].value = last.arg)
    /\ (CanExcl /\ fam # "UnsafeCellFamily") => \A value \in Value : ENABLED Set(value)
    /\ (fam = "UnsafeCellFamily")
          => \A value \in Value : ~ENABLED Set(value) /\ ~ENABLED SetViaSomeref(value)

C8_Witness ==
    /\ last.op = "set"
    /\ last.F = "IdentityFamily"
    /\ last.access = "mut"
    /\ lastWrite = Written("set", {20})
    /\ mem[loc].value = {20}

\* C9: for every family implementing Set, in every state of the wrapper and
\* for every value, set_via_someref on a SomeRef built from a reference of
\* the required kind gives the outcome and the memory that set on that
\* reference gives (for RefCell, the failure in the same borrow states).
C9_SetViaSomerefSameAsSet ==
    (Live /\ ImplementsSet(fam))
        => \A value \in Value :
              LET r == MkRef(RefKind(RefMutFamilyAllowingMutation(fam)), loc)
                  direct == set(fam, r, mem, value)
                  built == set_via_someref(fam, into_someref(r), mem, value)
              IN  /\ built.out = direct.out
                  /\ built.mem = direct.mem
                  /\ (someref.M = RefMutFamilyAllowingMutation(fam))
                        => LET held == set_via_someref(fam, someref, mem, value)
                           IN  /\ held.out = set(fam, origin, mem, value).out
                               /\ held.mem = set(fam, origin, mem, value).mem

C9_Witness ==
    /\ last.op = "set_via_someref"
    /\ last.F = "RefCellFamily"
    /\ last.out = "panic"
    /\ mem[loc].borrow # 0

\* C10 as stated: in every build configuration the size assertion has run
\* before into_inner_ref reinterprets the bits.
C10_Original ==
    (last.op = "into_inner_ref") => last.checked

\* C10 as amended: into_inner_ref checks the sizes by a debug assertion, at
\* run time, and only in a build with debug assertions; a build without them
\* reinterprets unchecked; the union and the concrete reference have the same
\* size, so in neither build does into_inner_ref fail, and it returns the
\* stored address.
C10_Amended ==
    /\ \A M \in RefMutFamilies : SizeOfSomeRef(M) = SizeOfRef(M)
    /\ (last.op = "into_inner_ref")
          => /\ last.checked <=> debug_assertions
             /\ last.out = "ok"
             /\ last.ref.addr = origin.addr

C10_Witness ==
    /\ last.op = "into_inner_ref"
    /\ ~debug_assertions
    /\ ~last.checked
    /\ last.out = "ok"
    /\ last.ref = origin

\* C11: map on a SomeRef of family M returns a SomeRef of the same family M;
\* on a shared SomeRef it calls f_ref exactly once, with the stored reference,
\* never f_mut, and the result holds, as a shared reference, the reference
\* f_ref returned; on an exclusive SomeRef it calls f_mut exactly once, never
\* f_ref, and the result holds, as an exclusive reference, the one f_mut
\* returned.
C11_MapKeepsKind ==
    (last.op = "map")
        => /\ someref.M \in RefMutFamilies
           /\ RefKind(someref.M) = last.access
           /\ someref.arm = ArmOf(last.access)
           /\ last.ref.kind = last.access
           /\ ~last.punned
           /\ IF last.access = "shared"
              THEN /\ last.callsRef = 1 /\ last.callsMut = 0
                   /\ someref.bits = last.f_ref[last.ref.addr]
              ELSE /\ last.callsRef = 0 /\ last.callsMut = 1
                   /\ someref.bits = last.f_mut[last.ref.addr]

C11_Witness ==
    /\ last.op = "map"
    /\ last.access = "mut"
    /\ someref.M = "MutRefFamily"
    /\ last.callsRef = 0 /\ last.callsMut = 1
    /\ last.f_ref[last.ref.addr] # last.f_mut[last.ref.addr]
    /\ someref.bits = last.f_mut[last.ref.addr]
    /\ someref.bits # last.ref.addr

\* C12: copy_inner, clone_inner, set and set_via_someref on a RefCell wrapper
\* drop the borrow they take before they return, so for a client that calls
\* only the library, one call after the other, the borrow flag of the wrapper
\* is unused between the calls and no call on it reports the
\* conflicting-access failure.
C12_BorrowIdle ==
    /\ (fam = "RefCellFamily") => (mem[loc].borrow = 0)
    /\ (last.F = "RefCellFamily") => (last.out = "ok")

C12_Witness ==
    /\ last.op = "clone_inner"
    /\ last.F = "RefCellFamily"
    /\ last.out = "ok"
    /\ lastWrite = Written("set", {20})
    /\ last.val = {20}
    /\ mem[loc].borrow = 0

====
